---------------------------- MODULE Spec2Model ----------------------------
(***************************************************************************)
(* A model of src/keys.rs of the KZG ceremony sequencer: the keystore      *)
(* (Keys::new, Keys::address), the signing service (Keys::sign), the       *)
(* verification service (Keys::verify) and the error-to-response mapping   *)
(* (SignatureError::into_response).                                        *)
(*                                                                         *)
(* keys.rs delegates to the hex crate and to ethers (LocalWallet,          *)
(* Signature).  Those calls are modelled by what they do:                  *)
(*   - hex::encode / hex::decode work on strings, which are sequences of   *)
(*     one-character strings here;                                         *)
(*   - a signature is 65 bytes (r: 32, s: 32, v: 1) and its hex string     *)
(*     130 characters, as in the program;                                  *)
(*   - the curve is replaced by the cyclic group of prime order            *)
(*     CurveOrder: the point k*G is the number k*Generator mod n, the      *)
(*     x-coordinate of a point P is min(P, n - P) (P and -P share it, as   *)
(*     on a curve) and the parity of y tells P from -P.  ECDSA signing     *)
(*     and public-key recovery are the real equations over that group.     *)
(*   - keccak256 is an injective table over the strings the model hashes   *)
(*     (the spec's "ignoring hash/curve collisions").                      *)
(***************************************************************************)
EXTENDS Integers, Sequences, FiniteSets, TLC

VARIABLES wallet, held, last, firstAddress, firstVerdict

vars == <<wallet, held, last, firstAddress, firstVerdict>>

(***************************************************************************)
(* Bounds of the model.                                                    *)
(***************************************************************************)
\* thread_rng draws the private scalar of a random wallet from 1..MaxKey.
MaxKey == 2
\* The signing primitive picks its nonce from 1..MaxNonce.
MaxNonce == 2

(***************************************************************************)
(* Sizes fixed by the program and its libraries.                           *)
(***************************************************************************)
\* Order of the group standing for secp256k1.
CurveOrder == 251
\* Bytes of one scalar (U256, a private key).
ScalarLen == 32
\* Bytes of a signature: r, s and v.
SignatureLen == 65
\* Bytes of an address (H160).
AddressLen == 20

\* The keystores a process and its tests construct.
KeyIds == {1, 2}
NoWallet == 0
NoSig == <<>>
\* Option::None of options.signing_key.
None == [some |-> FALSE, value |-> <<>>]
Some(str) == [some |-> TRUE, value |-> str]
\* The caller holds no signature.
NoHeld == [ks |-> 0, message |-> "", sig |-> NoSig]

\* The messages callers sign and verify.
Messages == {"hello world", "hello World"}

(***************************************************************************)
(* Characters and the hex crate.                                           *)
(***************************************************************************)
HexDigits == <<"0", "1", "2", "3", "4", "5", "6", "7",
               "8", "9", "a", "b", "c", "d", "e", "f">>
UpperDigits == <<"0", "1", "2", "3", "4", "5", "6", "7",
                 "8", "9", "A", "B", "C", "D", "E", "F">>

\* The value of each hex digit, in either case.
HexTable ==
    [c \in {HexDigits[i] : i \in 1..16} \cup {UpperDigits[i] : i \in 1..16} |->
        IF \E i \in 1..16 : HexDigits[i] = c
        THEN (CHOOSE i \in 1..16 : HexDigits[i] = c) - 1
        ELSE (CHOOSE i \in 1..16 : UpperDigits[i] = c) - 1]

\* hex::decode's value of one character, -1 for a character that is no hex
\* digit.  Both cases are accepted.
HexVal(c) == IF c \in DOMAIN HexTable THEN HexTable[c] ELSE -1

\* A hex::encode that writes upper-case digits.
HexEncodeUpper(bytes) ==
    [i \in 1..(2 * Len(bytes)) |->
        IF i % 2 = 1 THEN UpperDigits[(bytes[(i + 1) \div 2] \div 16) + 1]
                     ELSE UpperDigits[(bytes[i \div 2] % 16) + 1]]

\* hex::encode: two lower-case digits per byte, no prefix.
HexEncode(bytes) ==
    [i \in 1..(2 * Len(bytes)) |->
        IF i % 2 = 1 THEN HexDigits[(bytes[(i + 1) \div 2] \div 16) + 1]
                     ELSE HexDigits[(bytes[i \div 2] % 16) + 1]]

\* A hex::decode that drops the last character of an odd-length string.
HexDecodeLenient(str) ==
    IF \E i \in 1..(2 * (Len(str) \div 2)) : HexVal(str[i]) = -1
    THEN [ok |-> FALSE, bytes |-> <<>>]
    ELSE [ok |-> TRUE,
          bytes |-> [i \in 1..(Len(str) \div 2) |->
                        16 * HexVal(str[2 * i - 1]) + HexVal(str[2 * i])]]

\* hex::decode: an odd length or a character that is no hex digit is an
\* error; otherwise one byte per two characters.
HexDecode(str) ==
    IF Len(str) % 2 # 0 \/ \E i \in 1..Len(str) : HexVal(str[i]) = -1
    THEN [ok |-> FALSE, bytes |-> <<>>]
    ELSE [ok |-> TRUE,
          bytes |-> [i \in 1..(Len(str) \div 2) |->
                        16 * HexVal(str[2 * i - 1]) + HexVal(str[2 * i])]]

(***************************************************************************)
(* Scalars.  A 256-bit value is kept exactly up to 255 and as TooBig       *)
(* above: the program only compares it with the group order.               *)
(***************************************************************************)
TooBig == 256

\* U256::from_big_endian of the bytes first..last.
FromBigEndian(bytes, first, last_) ==
    IF \A i \in first..(last_ - 1) : bytes[i] = 0
    THEN bytes[last_]
    ELSE TooBig

\* U256::to_big_endian of a value below 256 into len bytes.
ToBigEndian(value, len) ==
    [i \in 1..len |-> IF i = len THEN value ELSE 0]

ValidScalar(x) == 1 <= x /\ x < CurveOrder

Inverse(a) == CHOOSE b \in 1..(CurveOrder - 1) : (a * b) % CurveOrder = 1

HalfOrder == CurveOrder \div 2

\* The x-coordinate of the point P (P in 1..CurveOrder-1).
XCoord(P) == IF P <= HalfOrder THEN P ELSE CurveOrder - P
\* Whether the y-coordinate of P is odd.
YOdd(P) == IF P <= HalfOrder THEN 0 ELSE 1

(***************************************************************************)
(* Hashing.                                                                *)
(***************************************************************************)
\* keccak256 reduced into the scalar field: injective and non-zero on the
\* strings the program hashes.  The values are such that the primitive's
\* failure (s = 0) and its normalisation of a high s both happen for keys
\* and nonces within the bounds.
Keccak(preimage) ==
    CASE preimage = "\\x19Ethereum Signed Message:\\n11hello world" -> 249
      [] preimage = "\\x19Ethereum Signed Message:\\n11hello World" -> 200
      [] preimage = "hello world" -> 3
      [] preimage = "hello World" -> 5
      [] OTHER -> 1

\* The decimal length ethers writes into the prefix.
DecimalLen(message) ==
    CASE Len(message) = 11 -> "11"
      [] OTHER -> "0"

\* ethers_core::utils::hash_message: keccak256 of the prefix, the length and
\* the message.
HashMessage(message) ==
    Keccak("\\x19Ethereum Signed Message:\\n" \o DecimalLen(message) \o message)


(***************************************************************************)
(* The wallet (ethers_signers::LocalWallet) and the ECDSA primitive.       *)
(***************************************************************************)
\* Generator of the group.
Generator == 2

\* The point k*G.
ScalarMul(k) == (k * Generator) % CurveOrder

\* The H160 of a public point: the low bytes of the hash of the point.
PubkeyToAddress(Q) == ToBigEndian(Q, AddressLen)

\* LocalWallet::address of the wallet with private scalar d.
WalletAddress(d) == PubkeyToAddress(ScalarMul(d))

\* k256's recoverable signing of the prehash z with key d and nonce k:
\* r is the x-coordinate of k*G, s = (z + r*d)/k, s is normalised to the low
\* half and the recovery id flipped with it; r = 0 or s = 0 is an error.
\* ethers then stores v = recovery id + 27.
SignPrehash(d, z, k) ==
    LET R == ScalarMul(k)
        r == XCoord(R) % CurveOrder
        s0 == (Inverse(k) * (z + r * d)) % CurveOrder
        high == s0 > HalfOrder
        s == IF high THEN CurveOrder - s0 ELSE s0
        recid == IF high THEN 1 - YOdd(R) ELSE YOdd(R)
    IN  IF r = 0 \/ s0 = 0
        THEN [ok |-> FALSE, r |-> 0, s |-> 0, v |-> 0]
        ELSE [ok |-> TRUE, r |-> r, s |-> s, v |-> recid + 27]

\* Signer::sign_message: the primitive on the prefixed hash of the message.
SignMessage(d, message, k) == SignPrehash(d, HashMessage(message), k)

\* From<Signature> for Vec<u8>: r and s big-endian, then v.
SignatureToBytes(sig) ==
    ToBigEndian(sig.r, ScalarLen) \o ToBigEndian(sig.s, ScalarLen) \o <<sig.v>>

\* Signature::try_from(&[u8]): only the length is checked.
SignatureTryFrom(bytes) ==
    IF Len(bytes) # SignatureLen
    THEN [ok |-> FALSE, r |-> 0, s |-> 0, v |-> 0]
    ELSE [ok |-> TRUE,
          r |-> FromBigEndian(bytes, 1, ScalarLen),
          s |-> FromBigEndian(bytes, ScalarLen + 1, 2 * ScalarLen),
          v |-> bytes[SignatureLen]]

\* ethers' normalize_recovery_id: 0, 1, 27, 28 and the EIP-155 values from 35
\* up are accepted; 4 stands for an invalid id.
NormalizeRecoveryId(v) ==
    CASE v = 0 -> 0
      [] v = 1 -> 1
      [] v = 27 -> 0
      [] v = 28 -> 1
      [] v >= 35 -> (v - 1) % 2
      [] OTHER -> 4

\* Signature::recover: the address of the public point implied by the
\* signature and the prefixed hash of the message, or an error (an invalid
\* recovery id, a scalar that is 0 or not below the order, an r that is no
\* x-coordinate, the point at infinity).
Recover(sig, z) ==
    LET id0 == NormalizeRecoveryId(sig.v)
        high == sig.s > HalfOrder
        s == IF high THEN CurveOrder - sig.s ELSE sig.s
        id == IF high THEN 1 - id0 ELSE id0
        R == IF id = 0 THEN sig.r ELSE CurveOrder - sig.r
        Q == (Inverse(sig.r)
                * (s * R + CurveOrder * CurveOrder - z * Generator)) % CurveOrder
    IN  IF \/ id0 = 4
           \/ ~ValidScalar(sig.r)
           \/ ~ValidScalar(sig.s)
           \/ sig.r > HalfOrder
        THEN [ok |-> FALSE, address |-> <<>>]
        ELSE IF Q = 0
        THEN [ok |-> FALSE, address |-> <<>>]
        ELSE [ok |-> TRUE, address |-> PubkeyToAddress(Q)]

\* A Signature::verify that does not look at the message.
SignatureVerifyAnyMessage(sig, message, address) ==
    \E m \in Messages :
        LET rec == Recover(sig, HashMessage(m))
        IN  rec.ok /\ rec.address = address

\* Signature::verify(message, address): the recovered address is the given
\* one.
SignatureVerify(sig, message, address) ==
    LET rec == Recover(sig, HashMessage(message))
    IN  rec.ok /\ rec.address = address

(***************************************************************************)
(* Keys.                                                                   *)
(***************************************************************************)
\* str::strip_prefix("0x") of LocalWallet::from_str.
StripPrefix(str) ==
    IF Len(str) >= 2 /\ str[1] = "0" /\ str[2] \in {"x", "X"}
    THEN SubSeq(str, 3, Len(str))
    ELSE str

\* A LocalWallet::from_str that pads a short key with leading zero bytes.
ParseWalletPadding(str) ==
    LET h == HexDecode(StripPrefix(str))
        n == Len(h.bytes)
        d == IF n = 0 THEN 0 ELSE FromBigEndian(h.bytes, 1, n)
    IN  IF ~h.ok \/ n > ScalarLen \/ ~ValidScalar(d)
        THEN [ok |-> FALSE, d |-> NoWallet]
        ELSE [ok |-> TRUE, d |-> d]

\* signing_key.parse::<LocalWallet>(): the string is hex of exactly 32 bytes
\* that are a scalar in 1..order-1.
ParseWallet(str) ==
    LET h == HexDecode(StripPrefix(str))
        d == FromBigEndian(h.bytes, 1, ScalarLen)
    IN  IF ~h.ok \/ Len(h.bytes) # ScalarLen
        THEN [ok |-> FALSE, d |-> NoWallet]
        ELSE IF ~ValidScalar(d)
        THEN [ok |-> FALSE, d |-> NoWallet]
        ELSE [ok |-> TRUE, d |-> d]

\* Keys::new: the wallet parsed from options.signing_key, or a random one
\* (rnd is thread_rng's draw) when there is none.
new(signing_key, rnd) ==
    IF signing_key.some
    THEN LET w == ParseWallet(signing_key.value)
         IN  IF w.ok THEN [res |-> "Ok", wallet |-> w.d]
                     ELSE [res |-> "Err", wallet |-> NoWallet]
    ELSE [res |-> "Ok", wallet |-> rnd]

\* Keys::sign: the hex of the wallet's signature, or SignatureCreation when
\* the wallet fails (nonce is the primitive's choice).
sign(d, message, nonce) ==
    LET signature == SignMessage(d, message, nonce)
    IN  IF ~signature.ok
        THEN [res |-> "SignatureCreation", sig |-> NoSig]
        ELSE [res |-> "Ok", sig |-> HexEncode(SignatureToBytes(signature))]

\* A Keys::verify that hands the message over as RecoveryMessage::Hash, so
\* that it is not prefixed and hashed again.
verifyRawHash(d, message, signature) ==
    LET h == HexDecode(signature)
        sg == SignatureTryFrom(h.bytes)
        rec == Recover(sg, Keccak(message))
    IN  IF ~h.ok THEN "InvalidToken"
        ELSE IF ~sg.ok THEN "InvalidSignature"
        ELSE IF rec.ok /\ rec.address = WalletAddress(d) THEN "Ok"
        ELSE "InvalidToken"

\* Keys::verify: hex::decode fails with InvalidToken, Signature::try_from
\* with InvalidSignature, Signature::verify with InvalidToken.
verify(d, message, signature) ==
    LET h == HexDecode(signature)
        sg == SignatureTryFrom(h.bytes)
    IN  IF ~h.ok THEN "InvalidToken"
        ELSE IF ~sg.ok THEN "InvalidSignature"
        ELSE IF SignatureVerify(sg, message, WalletAddress(d)) THEN "Ok"
        ELSE "InvalidToken"

\* Keys::address.
address(d) == WalletAddress(d)

(***************************************************************************)
(* SignatureError.                                                         *)
(***************************************************************************)
SignatureErrors == {"SignatureCreation", "InvalidToken", "InvalidSignature"}

\* #[error(...)]: the Display text of each variant.
Display(e) ==
    CASE e = "SignatureCreation" -> "couldn't sign the receipt"
      [] e = "InvalidToken" -> "signature is not a valid hex string"
      [] e = "InvalidSignature" -> "couldn't create signature from string"

\* An into_response that answers 400 for every variant.
into_response_all_400(e) ==
    LET error_message ==
            CASE e = "SignatureCreation" -> "couldn't sign the receipt"
              [] e = "InvalidToken" -> "signature is not a valid hex string"
              [] e = "InvalidSignature" -> "couldn't create signature from string"
    IN  [status |-> 400, body |-> [error |-> error_message]]

\* SignatureError::into_response: the status and the JSON body.
into_response(e) ==
    LET pair ==
            CASE e = "SignatureCreation" ->
                    <<500, "couldn't sign the receipt">>
              [] e = "InvalidToken" ->
                    <<400, "signature is not a valid hex string">>
              [] e = "InvalidSignature" ->
                    <<400, "couldn't create signature from string">>
    IN  [status |-> pair[1], body |-> [error |-> pair[2]]]

(***************************************************************************)
(* The inputs callers supply.                                              *)
(***************************************************************************)
\* The hex string of the private scalar d.
KeyString(d) == HexEncode(ToBigEndian(d, ScalarLen))

\* str with its character at pos replaced by c.
Replace(str, pos, c) == [str EXCEPT ![pos] = c]

\* Values of options.signing_key: keys in range (one with the 0x marker), a
\* key with a character that is no hex digit, keys of 31 bytes, of an odd
\* length and of no bytes, a key of 33 bytes, and the scalars 0 and
\* CurveOrder, which are no private keys.
SigningKeys ==
    {KeyString(d) : d \in 1..MaxKey}
        \cup {<<"0", "x">> \o KeyString(1),
              Replace(KeyString(1), 5, "g"),
              SubSeq(KeyString(1), 3, 2 * ScalarLen),
              SubSeq(KeyString(1), 2, 2 * ScalarLen),
              <<>>,
              <<"0", "0">> \o KeyString(1),
              KeyString(0),
              KeyString(CurveOrder)}

\* Signature strings a caller can make up without a signature at hand: the
\* empty string, an odd-length string, 65 bytes with a character that is no
\* hex digit, 64 and 66 bytes of hex, and 65 bytes whose scalars are 0,
\* whose r is no x-coordinate, whose s is not below the order, or whose
\* recovery byte is invalid.
CraftedSignatures ==
    LET zeros == HexEncode([i \in 1..SignatureLen |-> 0])
        some == HexEncode(SignatureToBytes([r |-> 2, s |-> 3, v |-> 27]))
    IN  {<<>>,
         <<"1", "b", "c">>,
         Replace(some, 7, "g"),
         SubSeq(some, 3, 2 * SignatureLen),
         <<"0", "0">> \o some,
         zeros,
         HexEncode(SignatureToBytes([r |-> CurveOrder - 1, s |-> 3, v |-> 27])),
         HexEncode(SignatureToBytes([r |-> 2, s |-> CurveOrder, v |-> 28])),
         HexEncode(SignatureToBytes([r |-> 2, s |-> 3, v |-> 29]))}

\* The places of a signature string a caller tampers with: the first and
\* the last digit of r, the first and the last digit of s, the two digits
\* of v.
TamperPositions ==
    {1, 2 * ScalarLen, 2 * ScalarLen + 1, 4 * ScalarLen,
     4 * ScalarLen + 1, 4 * ScalarLen + 2}
\* The characters a caller writes there.
TamperChars == {"0", "2", "3", "c", "B", "g"}

\* Strings that differ from str in exactly one character.
Tampered(str) ==
    {Replace(str, pos, c) : pos \in TamperPositions, c \in TamperChars} \ {str}

(***************************************************************************)
(* The state.  wallet[ks] is the private scalar of keystore ks (NoWallet   *)
(* until Keys::new has returned it).  The rest is the callers' side: held  *)
(* is a signature a caller keeps with its message and keystore, last is    *)
(* the call that has just returned with its arguments and result (NoCall   *)
(* once the caller has taken it), firstAddress[ks] is what the first       *)
(* address() of keystore ks returned and firstVerdict what the first       *)
(* verify of the held signature on its own message and keystore returned.  *)
(***************************************************************************)
NoCall == [op |-> "none"]
NoAddress == <<>>
NoVerdict == "none"

Init ==
    /\ wallet = [ks \in KeyIds |-> NoWallet]
    /\ held = NoHeld
    /\ last = NoCall
    /\ firstAddress = [ks \in KeyIds |-> NoAddress]
    /\ firstVerdict = NoVerdict

\* Keys::new(options): a keystore is returned only on success.  rnd is the
\* scalar thread_rng yields when no signing key is given.
CallNew ==
    \E ks \in KeyIds, signing_key \in {Some(str) : str \in SigningKeys} \cup {None} :
        \E rnd \in IF signing_key.some THEN {1} ELSE 1..MaxKey :
            /\ last = NoCall
            /\ wallet[ks] = NoWallet
            /\ LET r == new(signing_key, rnd)
               IN  /\ wallet' = [wallet EXCEPT ![ks] = r.wallet]
                   /\ last' = [op |-> "new", ks |-> ks, signing_key |-> signing_key,
                               res |-> r.res]
            /\ UNCHANGED <<held, firstAddress, firstVerdict>>

\* A Keys::sign that replaces the wallet's key after signing.
CallSignRotating ==
    \E ks \in KeyIds, message \in Messages, nonce \in 1..MaxNonce, keep \in BOOLEAN :
        /\ last = NoCall
        /\ wallet[ks] # NoWallet
        /\ LET r == sign(wallet[ks], message, nonce)
           IN  /\ last' = [op |-> "sign", ks |-> ks, message |-> message,
                           nonce |-> nonce, res |-> r.res, sig |-> r.sig]
               /\ held' = IF keep /\ r.res = "Ok"
                          THEN [ks |-> ks, message |-> message, sig |-> r.sig]
                          ELSE held
               /\ firstVerdict' = IF keep /\ r.res = "Ok" THEN NoVerdict
                                  ELSE firstVerdict
        /\ wallet' = [wallet EXCEPT ![ks] = (wallet[ks] % (CurveOrder - 1)) + 1]
        /\ UNCHANGED firstAddress

\* keys.sign(message).await on a constructed keystore.  The wallet's future
\* is ready at its first poll, so the call is one step.  The caller may keep
\* the signature in place of the one it held.
CallSign ==
    \E ks \in KeyIds, message \in Messages, nonce \in 1..MaxNonce, keep \in BOOLEAN :
        /\ last = NoCall
        /\ wallet[ks] # NoWallet
        /\ LET r == sign(wallet[ks], message, nonce)
           IN  /\ last' = [op |-> "sign", ks |-> ks, message |-> message,
                           nonce |-> nonce, res |-> r.res, sig |-> r.sig]
               /\ held' = IF keep /\ r.res = "Ok"
                          THEN [ks |-> ks, message |-> message, sig |-> r.sig]
                          ELSE held
               /\ firstVerdict' = IF keep /\ r.res = "Ok" THEN NoVerdict
                                  ELSE firstVerdict
        /\ UNCHANGED <<wallet, firstAddress>>

\* The record of a verify call, and the first verdict on the held signature.
VerifyStep(ks, message, signature) ==
    LET res == verify(wallet[ks], message, signature)
    IN  /\ last' = [op |-> "verify", ks |-> ks, message |-> message,
                    sig |-> signature, res |-> res]
        /\ firstVerdict' =
              IF /\ firstVerdict = NoVerdict
                 /\ held = [ks |-> ks, message |-> message, sig |-> signature]
              THEN res
              ELSE firstVerdict
        /\ UNCHANGED <<wallet, held, firstAddress>>

\* keys.verify(message, signature) with the held signature or a made-up one,
\* on any constructed keystore and any message.
CallVerify ==
    \E ks \in KeyIds, message \in Messages,
       signature \in CraftedSignatures
                        \cup (IF held = NoHeld THEN {} ELSE {held.sig}) :
        /\ last = NoCall
        /\ wallet[ks] # NoWallet
        /\ VerifyStep(ks, message, signature)

\* keys.verify(message, signature) with the held signature changed in one
\* character, on the keystore and the message it was made for.
CallVerifyTampered ==
    /\ last = NoCall
    /\ held # NoHeld
    /\ \E signature \in Tampered(held.sig) :
           VerifyStep(held.ks, held.message, signature)

\* keys.address() on a constructed keystore.
CallAddress ==
    \E ks \in KeyIds :
        /\ last = NoCall
        /\ wallet[ks] # NoWallet
        /\ last' = [op |-> "address", ks |-> ks, res |-> address(wallet[ks])]
        /\ firstAddress' =
              IF firstAddress[ks] = NoAddress
              THEN [firstAddress EXCEPT ![ks] = address(wallet[ks])]
              ELSE firstAddress
        /\ UNCHANGED <<wallet, held, firstVerdict>>

\* error.into_response() for any SignatureError.
CallIntoResponse ==
    \E e \in SignatureErrors :
        /\ last = NoCall
        /\ last' = [op |-> "into_response", error |-> e,
                    display |-> Display(e), res |-> into_response(e)]
        /\ UNCHANGED <<wallet, held, firstAddress, firstVerdict>>

\* The caller takes the result of the call that returned.
Return ==
    /\ last # NoCall
    /\ last' = NoCall
    /\ UNCHANGED <<wallet, held, firstAddress, firstVerdict>>

Next ==
    \/ CallNew
    \/ CallSign
    \/ CallVerify
    \/ CallVerifyTampered
    \/ CallAddress
    \/ CallIntoResponse
    \/ Return

Spec == Init /\ [][Next]_vars

(***************************************************************************)
(* What the properties speak of.                                           *)
(***************************************************************************)
LowerHexChars == {HexDigits[i] : i \in 1..16}
HexChars == LowerHexChars \cup {UpperDigits[i] : i \in 1..16}

\* str holds a character that is no hex digit.
NonHexContent(str) == \E i \in 1..Len(str) : str[i] \notin HexChars

\* str is hex of exactly 65 bytes.
HexOfSignatureLen(str) == ~NonHexContent(str) /\ Len(str) = 2 * SignatureLen

\* The big-endian value of the two-digit byte that ends at position pos of
\* the hex string str, TooBig when a byte before it, from position first on,
\* is not zero.
FieldValue(str, first, pos) ==
    IF \A i \in first..(pos - 2) : str[i] = "0"
    THEN 16 * HexTable[str[pos - 1]] + HexTable[str[pos]]
    ELSE TooBig

\* The scalars and the recovery byte a 130-digit hex string spells.
RField(str) == FieldValue(str, 1, 2 * ScalarLen)
SField(str) == FieldValue(str, 2 * ScalarLen + 1, 4 * ScalarLen)
VField(str) == FieldValue(str, 4 * ScalarLen + 1, 2 * SignatureLen)

\* The 130-digit hex string str spells scalars or a recovery byte from which
\* no public point can be recovered.
MalformedScalars(str) ==
    \/ ~ValidScalar(RField(str))
    \/ ~ValidScalar(SField(str))
    \/ RField(str) > HalfOrder
    \/ ~(VField(str) \in {0, 1, 27, 28} \/ VField(str) >= 35)

\* The address recovered from the 130-digit hex string str and the message.
RecoveredAddress(str, message) ==
    Recover([r |-> RField(str), s |-> SField(str), v |-> VField(str)],
            HashMessage(message))

\* a and b are of one length and differ in exactly one character.
DiffersInOneChar(a, b) ==
    /\ Len(a) = Len(b)
    /\ Cardinality({i \in 1..Len(a) : a[i] # b[i]}) = 1

\* The latest call is a verify of the held signature string.
VerifiedHeldSig == last.op = "verify" /\ held # NoHeld /\ last.sig = held.sig

\* The latest call is a verify of the held signature on its own message and
\* keystore.
VerifiedHeld ==
    VerifiedHeldSig /\ last.ks = held.ks /\ last.message = held.message

(***************************************************************************)
(* C1.  Round trip.                                                        *)
(***************************************************************************)
\* C1: every signature a successful sign(m) of a keystore returns verifies
\* on that keystore for m: at once, whichever nonce was picked, and when the
\* caller verifies the signature it kept after any other calls.
C1_RoundTrip ==
    /\ (last.op = "sign" /\ last.res = "Ok")
          => verify(wallet[last.ks], last.message, last.sig) = "Ok"
    /\ VerifiedHeld => last.res = "Ok"

\* A kept signature has been verified on its message and keystore, after an
\* earlier verify of it.
C1_Witness == VerifiedHeld /\ last.res = "Ok" /\ firstVerdict = "Ok"

(***************************************************************************)
(* C2.  A mismatch is reported as InvalidSignature.                        *)
(***************************************************************************)
\* C2: a verify of a well-formed signature (hex, 65 bytes, scalars from
\* which a point is recovered) whose recovered address differs from the
\* keystore's fails with InvalidSignature, the kind rendered "couldn't
\* create signature from string".
C2_MismatchIsInvalidSignature ==
    (/\ last.op = "verify"
     /\ HexOfSignatureLen(last.sig)
     /\ ~MalformedScalars(last.sig)
     /\ RecoveredAddress(last.sig, last.message).ok
     /\ RecoveredAddress(last.sig, last.message).address
            # WalletAddress(wallet[last.ks]))
        => (last.res = "InvalidSignature"
            /\ Display(last.res) = "couldn't create signature from string")

(***************************************************************************)
(* C3.  The invalid-encoding error.                                        *)
(***************************************************************************)
\* C3 as stated: verify fails with InvalidToken for every signature string
\* with a character that is no hex digit and for every hex string that does
\* not decode to exactly 65 bytes, the empty and the odd-length ones
\* included.
C3_WrongLengthIsInvalidToken ==
    (last.op = "verify"
        /\ (NonHexContent(last.sig) \/ Len(last.sig) # 2 * SignatureLen))
        => last.res = "InvalidToken"

\* C3 amended: verify fails with InvalidToken for every signature string
\* with a character that is no hex digit or of an odd length, and with
\* InvalidSignature for every hex string of an even length that does not
\* decode to exactly 65 bytes, the empty one included; for every message.
C3_EncodingErrors ==
    /\ (last.op = "verify"
          /\ (NonHexContent(last.sig) \/ Len(last.sig) % 2 = 1))
          => last.res = "InvalidToken"
    /\ (last.op = "verify"
          /\ ~NonHexContent(last.sig)
          /\ Len(last.sig) % 2 = 0
          /\ Len(last.sig) # 2 * SignatureLen)
          => last.res = "InvalidSignature"

\* A hex string of 64 bytes has been verified and refused as
\* InvalidSignature.
C3_Witness ==
    /\ last.op = "verify"
    /\ ~NonHexContent(last.sig)
    /\ Len(last.sig) = 2 * SignatureLen - 2
    /\ last.res = "InvalidSignature"

(***************************************************************************)
(* C4.  Malformed scalars.                                                 *)
(***************************************************************************)
\* C4: a verify of a hex string of exactly 65 bytes whose scalars or
\* recovery byte are malformed, so that no public point is recovered, fails
\* with InvalidSignature.
C4_MalformedIsInvalidSignature ==
    (last.op = "verify"
        /\ HexOfSignatureLen(last.sig)
        /\ MalformedScalars(last.sig))
        => last.res = "InvalidSignature"

(***************************************************************************)
(* C5.  Binding.                                                           *)
(***************************************************************************)
\* C5: a signature sign(m1) of keystore k returned is refused by verify for
\* any other message and on any keystore whose address differs from k's.
C5_Binding ==
    (VerifiedHeldSig
        /\ (\/ last.message # held.message
            \/ address(wallet[last.ks]) # address(wallet[held.ks])))
        => last.res # "Ok"

\* A kept signature has been verified on a keystore with another address
\* and refused.
C5_Witness ==
    /\ VerifiedHeldSig
    /\ last.message = held.message
    /\ address(wallet[last.ks]) # address(wallet[held.ks])
    /\ last.res # "Ok"

(***************************************************************************)
(* C6.  Tamper sensitivity.                                                *)
(***************************************************************************)
\* C6: a verify, on the message and the keystore a signature was made for,
\* of a string that differs from the signature in exactly one character
\* never returns Ok.
C6_TamperNeverOk ==
    (/\ last.op = "verify"
     /\ held # NoHeld
     /\ last.ks = held.ks
     /\ last.message = held.message
     /\ DiffersInOneChar(last.sig, held.sig))
        => last.res # "Ok"

(***************************************************************************)
(* C7.  Key creation.                                                      *)
(***************************************************************************)
\* C7: Keys::new with a signing key that, after its optional 0x marker, has
\* a character that is no hex digit or is not 64 digits long fails and
\* yields no keystore; with the hex string of a scalar d in range it
\* returns the keystore of d, whose address is that of d; without a signing
\* key it returns a keystore; and sign, verify and address only ever run on
\* a keystore that was returned.
C7_KeyCreation ==
    /\ last.op = "new" =>
          LET key == last.signing_key
              str == StripPrefix(key.value)
          IN  /\ (key.some /\ (NonHexContent(str) \/ Len(str) # 2 * ScalarLen))
                    => (last.res = "Err" /\ wallet[last.ks] = NoWallet)
              /\ (/\ key.some
                  /\ ~NonHexContent(str)
                  /\ Len(str) = 2 * ScalarLen
                  /\ ValidScalar(FieldValue(str, 1, 2 * ScalarLen)))
                    => LET d == FieldValue(str, 1, 2 * ScalarLen)
                       IN  /\ last.res = "Ok"
                           /\ wallet[last.ks] = d
                           /\ address(wallet[last.ks]) = WalletAddress(d)
              /\ ~key.some
                    => (last.res = "Ok" /\ ValidScalar(wallet[last.ks]))
              /\ last.res = "Err" => wallet[last.ks] = NoWallet
    /\ last.op \in {"sign", "verify", "address"} => wallet[last.ks] # NoWallet

\* Keys::new has refused a signing key of 31 bytes.
C7_Witness ==
    /\ last.op = "new"
    /\ last.signing_key.some
    /\ Len(last.signing_key.value) = 2 * ScalarLen - 2
    /\ last.res = "Err"
    /\ wallet[last.ks] = NoWallet

(***************************************************************************)
(* C8.  Error responses.                                                   *)
(***************************************************************************)
\* C8: into_response maps SignatureCreation to 500 and "couldn't sign the
\* receipt", InvalidToken to 400 and "signature is not a valid hex string",
\* InvalidSignature to 400 and "couldn't create signature from string"; the
\* body is {"error": message} and the message is the error's Display text.
C8_ErrorResponses ==
    last.op = "into_response" =>
        /\ last.error = "SignatureCreation" =>
              last.res = [status |-> 500,
                          body |-> [error |-> "couldn't sign the receipt"]]
        /\ last.error = "InvalidToken" =>
              last.res = [status |-> 400,
                          body |-> [error |-> "signature is not a valid hex string"]]
        /\ last.error = "InvalidSignature" =>
              last.res = [status |-> 400,
                          body |-> [error |-> "couldn't create signature from string"]]
        /\ DOMAIN last.res.body = {"error"}
        /\ last.res.body.error = last.display

\* SignatureCreation has been turned into a response.
C8_Witness ==
    /\ last.op = "into_response"
    /\ last.error = "SignatureCreation"
    /\ last.res.status = 500

C10_SignatureString ==
    last.op = "sign" =>
        LET prim == SignMessage(wallet[last.ks], last.message, last.nonce)
        IN  /\ last.res \in {"Ok", "SignatureCreation"}
            /\ last.res = "SignatureCreation" <=> ~prim.ok
            /\ last.res = "Ok" =>
                  /\ Len(last.sig) = 130
                  /\ \A i \in 1..Len(last.sig) : last.sig[i] \in LowerHexChars
                  /\ RField(last.sig) = prim.r
                  /\ SField(last.sig) = prim.s
                  /\ VField(last.sig) = prim.v
                  /\ prim.v \in {27, 28}

\* sign has returned a signature whose s was normalised to the low half.
C10_Witness ==
    /\ last.op = "sign"
    /\ last.res = "Ok"
    /\ VField(last.sig) = 28

=============================================================================
